---- MODULE Spec2Model ----
(***************************************************************************)
(* Command model and dispatch layer of nh (src/src/interface.rs).          *)
(*                                                                         *)
(* One behaviour is one process: the clap command tree is built (which     *)
(* evaluates every default_value_t expression and so forces FLAKE_CONFIG), *)
(* the command line is parsed against the argument definitions declared    *)
(* by the derive attributes, and the resulting NHCommand is run through    *)
(* the delegated NHRunnable::run.                                          *)
(*                                                                         *)
(* Text is a sequence of chunks (strings); numeric text is one digit per   *)
(* chunk, so "30" is <<"3","0">> and "0h" is <<"0","h">>.  Option<T> is a   *)
(* sequence of length at most one: None is <<>> and Some(x) is <<x>>.      *)
(***************************************************************************)
EXTENDS Integers, Sequences, FiniteSets, TLC

VARIABLES env, layout, argv, pc, buildIdx, cfg, initCount, accesses, observed,
          defaults,
          outcome, command, calls, leafResult, result

vars == <<env, layout, argv, pc, buildIdx, cfg, initCount, accesses, observed,
          defaults,
          outcome, command, calls, leafResult, result>>

\* Largest number of trailing pass-through arguments (after "--") on a command line.
MaxExtraArgs == 1

None == <<>>
Some(x) == <<x>>
IsSome(o) == Len(o) = 1
Unwrap(o) == o[1]

T(s) == <<s>>

Ok(v) == [ok |-> TRUE, val |-> v]
Err(k) == [ok |-> FALSE, kind |-> k]

----------------------------------------------------------------------------
(* Reference Value *)

FlakeRef_from(s) == [inner |-> s]

FlakeRef_fmt(f) == f.inner

----------------------------------------------------------------------------
(* Value parsers selected by the field types *)

Digits == {"0", "1", "2", "3", "4", "5", "6", "7", "8", "9"}

DigitVal(c) ==
    CASE c = "0" -> 0 [] c = "1" -> 1 [] c = "2" -> 2 [] c = "3" -> 3
      [] c = "4" -> 4 [] c = "5" -> 5 [] c = "6" -> 6 [] c = "7" -> 7
      [] c = "8" -> 8 [] c = "9" -> 9

RECURSIVE DecimalValue(_)
DecimalValue(t) ==
    IF t = <<>> THEN 0
    ELSE 10 * DecimalValue(SubSeq(t, 1, Len(t) - 1)) + DigitVal(t[Len(t)])

IsDecimal(t) == Len(t) > 0 /\ \A i \in 1..Len(t) : t[i] \in Digits

\* u32 and u64 from decimal text; every text of at most MaxDigits digits fits both
MaxDigits == 9

ParseUInt(t) ==
    IF IsDecimal(t) /\ Len(t) <= MaxDigits THEN Ok(DecimalValue(t))
    ELSE Err("InvalidValue")

UnitSeconds(u) ==
    CASE u = "s" -> 1 [] u = "m" -> 60 [] u = "h" -> 3600 [] u = "d" -> 86400

DurationUnits == {"s", "m", "h", "d"}

\* humantime::Duration from one <number><unit> item, in seconds
ParseDuration(t) ==
    IF Len(t) >= 2 /\ IsDecimal(SubSeq(t, 1, Len(t) - 1)) /\ t[Len(t)] \in DurationUnits
    THEN Ok(DecimalValue(SubSeq(t, 1, Len(t) - 1)) * UnitSeconds(t[Len(t)]))
    ELSE Err("InvalidValue")

ParseBool(t) ==
    IF t = T("true") THEN Ok(TRUE)
    ELSE IF t = T("false") THEN Ok(FALSE)
    ELSE Err("InvalidValue")

Shells == {"bash", "elvish", "fish", "powershell", "zsh"}

ParseShell(t) ==
    IF Len(t) = 1 /\ t[1] \in Shells THEN Ok(t[1]) ELSE Err("InvalidValue")

ValueParse(ty, t) ==
    CASE ty = "FlakeRef" -> Ok(FlakeRef_from(t))
      [] ty = "bool"     -> ParseBool(t)
      [] ty = "u32"      -> ParseUInt(t)
      [] ty = "u64"      -> ParseUInt(t)
      [] ty = "Duration" -> ParseDuration(t)
      [] ty = "Shell"    -> ParseShell(t)
      [] OTHER           -> Ok(t)

----------------------------------------------------------------------------
(* Argument definitions declared by the derive attributes *)

Arg(id, ty, kind, opt, envv, dflt, confl) ==
    [id |-> id, ty |-> ty, kind |-> kind, opt |-> opt, env |-> envv,
     default |-> dflt, conflicts |-> confl]

Flag(id) == Arg(id, "bool", "flag", FALSE, None, None, {})

NHParserArgs ==
    << Flag("verbose"),
       Arg("elevation_program", "OsString", "option", TRUE,
           Some("ELEVATION_PROGRAM"), None, {}) >>

\* variant: configuration declared without conflicts_with
CommonReplArgs_NoConflict ==
    << Arg("flakeref", "FlakeRef", "positional", FALSE, Some("FLAKE"), None, {}),
       Arg("hostname", "OsString", "option", TRUE, None, None, {}),
       Arg("configuration", "String", "option", TRUE, None, None, {}),
       Arg("extra_args", "String", "last", FALSE, None, None, {}) >>

\* variant: the repl flakeref declared with a default value
CommonReplArgs_WithDefault ==
    << Arg("flakeref", "FlakeRef", "positional", FALSE, Some("FLAKE"), Some(T(".")), {}),
       Arg("hostname", "OsString", "option", TRUE, None, None, {}),
       Arg("configuration", "String", "option", TRUE, None, None, {"flakeref"}),
       Arg("extra_args", "String", "last", FALSE, None, None, {}) >>

CommonReplArgs ==
    << Arg("flakeref", "FlakeRef", "positional", FALSE, Some("FLAKE"), None, {}),
       Arg("hostname", "OsString", "option", TRUE, None, None, {}),
       Arg("configuration", "String", "option", TRUE, None, None, {"flakeref"}),
       Arg("extra_args", "String", "last", FALSE, None, None, {}) >>

DiffProviderDefault == T("nvd diff")

CommonRebuildArgs ==
    << Flag("dry"), Flag("ask"), Flag("update"), Flag("pull"), Flag("no_nom"),
       Arg("diff_provider", "String", "option", FALSE,
           Some("NH_DIFF_PROVIDER"), Some(DiffProviderDefault), {}),
       Arg("out_link", "PathBuf", "option", TRUE, None, None, {}) >>

\* variant: no_specialisation declared with conflicts_with = "specialisation"
OsSubcommandArgs_Exclusive(dflt) ==
    CommonRebuildArgs \o
    << Arg("flakeref", "FlakeRef", "positional", FALSE, None, dflt, {}),
       Arg("hostname", "OsString", "option", TRUE, None, None, {}),
       Arg("specialisation", "String", "option", TRUE, None, None, {}),
       Arg("no_specialisation", "bool", "flag", FALSE, None, None, {"specialisation"}),
       Arg("extra_args", "String", "last", FALSE, None, None, {}),
       Arg("bypass_root_check", "bool", "flag", FALSE,
           Some("NH_BYPASS_ROOT_CHECK"), None, {}) >>

OsSubcommandArgs(dflt) ==
    CommonRebuildArgs \o
    << Arg("flakeref", "FlakeRef", "positional", FALSE, None, dflt, {}),
       Arg("hostname", "OsString", "option", TRUE, None, None, {}),
       Arg("specialisation", "String", "option", TRUE, None, None, {}),
       Flag("no_specialisation"),
       Arg("extra_args", "String", "last", FALSE, None, None, {}),
       Arg("bypass_root_check", "bool", "flag", FALSE,
           Some("NH_BYPASS_ROOT_CHECK"), None, {}) >>

SearchLimitDefault == <<"3", "0">>

\* variant: the query declared as Option<String>
SearchArgs_OptionalQuery ==
    << Arg("limit", "u64", "option", FALSE, None, Some(SearchLimitDefault), {}),
       Arg("channel", "String", "option", TRUE, None, None, {}),
       Arg("query", "String", "positional", TRUE, None, None, {}),
       Arg("flake", "FlakeRef", "option", TRUE, Some("FLAKE"), None, {}) >>

SearchArgs ==
    << Arg("limit", "u64", "option", FALSE, None, Some(SearchLimitDefault), {}),
       Arg("channel", "String", "option", TRUE, None, None, {}),
       Arg("query", "String", "positional", FALSE, None, None, {}),
       Arg("flake", "FlakeRef", "option", TRUE, Some("FLAKE"), None, {}) >>

CleanKeepDefault == <<"1">>

CleanKeepSinceDefault == <<"0", "h">>

\* variant: keep declared with default_value = "0"
CleanArgs_KeepNone ==
    << Arg("keep", "u32", "option", FALSE, None, Some(<<"0">>), {}),
       Arg("keep_since", "Duration", "option", FALSE, None,
           Some(CleanKeepSinceDefault), {}),
       Flag("dry"), Flag("ask"), Flag("nogc"), Flag("nogcroots") >>

CleanArgs ==
    << Arg("keep", "u32", "option", FALSE, None, Some(CleanKeepDefault), {}),
       Arg("keep_since", "Duration", "option", FALSE, None,
           Some(CleanKeepSinceDefault), {}),
       Flag("dry"), Flag("ask"), Flag("nogc"), Flag("nogcroots") >>

CleanProfileArgs ==
    CleanArgs \o << Arg("profile", "PathBuf", "positional", FALSE, None, None, {}) >>

HomeRebuildArgs(dflt) ==
    CommonRebuildArgs \o
    << Arg("flakeref", "FlakeRef", "positional", FALSE, None, dflt, {}),
       Arg("configuration", "String", "option", TRUE, None, None, {}),
       Arg("extra_args", "String", "last", FALSE, None, None, {}),
       Arg("backup_extension", "String", "option", TRUE, None, None, {}) >>

CompletionArgs ==
    << Arg("shell", "Shell", "option", FALSE, None, None, {}) >>

OsRebuildCmds == {"os.switch", "os.boot", "os.test", "os.build"}

HomeRebuildCmds == {"home.switch", "home.build"}

CleanCmds == {"clean.all", "clean.user", "clean.profile"}

Commands ==
    OsRebuildCmds \cup {"os.repl", "os.info"} \cup HomeRebuildCmds \cup {"home.info"}
    \cup {"search"} \cup CleanCmds \cup {"completions"}

\* the default recorded for a command's flakeref when the tree was built
SiteDefault(dv, cmd) == IF cmd \in DOMAIN dv THEN Some(dv[cmd]) ELSE None

\* the argument struct carried by each leaf subcommand
SubDefs(cmd, dv) ==
    CASE cmd \in OsRebuildCmds   -> OsSubcommandArgs(SiteDefault(dv, cmd))
      [] cmd = "os.repl"         -> CommonReplArgs
      [] cmd \in HomeRebuildCmds -> HomeRebuildArgs(SiteDefault(dv, cmd))
      [] cmd = "search"          -> SearchArgs
      [] cmd \in {"clean.all", "clean.user"} -> CleanArgs
      [] cmd = "clean.profile"   -> CleanProfileArgs
      [] cmd = "completions"     -> CompletionArgs
      [] OTHER                   -> <<>>

\* the arguments a leaf subcommand accepts: the global ones and its own
ArgDefs(cmd, dv) == NHParserArgs \o SubDefs(cmd, dv)

DefIds(defs) == {defs[i].id : i \in 1..Len(defs)}

DefOf(defs, id) == defs[CHOOSE i \in 1..Len(defs) : defs[i].id = id]

\* a field with neither Option, bool nor Vec type and no default is required
IsRequired(a) ==
    a.kind \in {"option", "positional"} /\ ~a.opt /\ a.default = None

----------------------------------------------------------------------------
(* clap: command line, then environment, then defaults, then validation *)

EnvVar(e, name) == IF name \in DOMAIN e THEN e[name] ELSE None

\* one occurrence of an argument with its raw values, from the given source
React(a, rawvals, source) ==
    IF a.kind = "last" THEN Ok([val |-> rawvals, source |-> source])
    ELSE LET raw == IF a.kind = "flag" /\ rawvals = <<>> THEN T("true") ELSE rawvals[1]
             r   == ValueParse(a.ty, raw)
         IN  IF r.ok THEN Ok([val |-> r.val, source |-> source]) ELSE r

ParseCommandLine(defs, given) ==
    IF \E id \in DOMAIN given : id \notin DefIds(defs) THEN Err("UnknownArgument")
    ELSE IF \E id \in DOMAIN given : ~React(DefOf(defs, id), given[id], "CommandLine").ok
    THEN Err("InvalidValue")
    ELSE Ok([id \in DOMAIN given |-> React(DefOf(defs, id), given[id], "CommandLine").val])

\* the environment is used only for arguments absent from the command line
EnvIds(defs, e, m) ==
    {id \in DefIds(defs) \ DOMAIN m :
        IsSome(DefOf(defs, id).env) /\ IsSome(EnvVar(e, Unwrap(DefOf(defs, id).env)))}

EnvReact(defs, e, id) ==
    React(DefOf(defs, id), <<Unwrap(EnvVar(e, Unwrap(DefOf(defs, id).env)))>>, "EnvVariable")

\* variant: the environment is applied even to arguments given on the command line
AddEnv_OverCommandLine(defs, e, m) ==
    IF \E id \in EnvIds(defs, e, <<>>) : ~EnvReact(defs, e, id).ok THEN Err("InvalidValue")
    ELSE Ok([id \in EnvIds(defs, e, <<>>) |-> EnvReact(defs, e, id).val] @@ m)

AddEnv(defs, e, m) ==
    IF \E id \in EnvIds(defs, e, m) : ~EnvReact(defs, e, id).ok THEN Err("InvalidValue")
    ELSE Ok(m @@ [id \in EnvIds(defs, e, m) |-> EnvReact(defs, e, id).val])

\* a default is used only for arguments still absent; a flag defaults to false
DefaultText(a) ==
    IF IsSome(a.default) THEN a.default
    ELSE IF a.kind = "flag" THEN Some(T("false")) ELSE None

DefaultIds(defs, m) ==
    {id \in DefIds(defs) \ DOMAIN m : IsSome(DefaultText(DefOf(defs, id)))}

DefaultReact(defs, id) ==
    React(DefOf(defs, id), <<Unwrap(DefaultText(DefOf(defs, id)))>>, "DefaultValue")

AddDefaults(defs, m) ==
    IF \E id \in DefaultIds(defs, m) : ~DefaultReact(defs, id).ok THEN Err("InvalidValue")
    ELSE Ok(m @@ [id \in DefaultIds(defs, m) |-> DefaultReact(defs, id).val])

\* values that came from a default do not count as present for conflicts
Explicit(m) == {id \in DOMAIN m : m[id].source # "DefaultValue"}

ConflictsWith(defs, a, b) ==
    b \in DefOf(defs, a).conflicts \/ a \in DefOf(defs, b).conflicts

Validate(defs, m) ==
    IF \E a \in Explicit(m) : \E b \in Explicit(m) : a # b /\ ConflictsWith(defs, a, b)
    THEN Err("ArgumentConflict")
    ELSE IF \E id \in DefIds(defs) \ DOMAIN m :
               /\ IsRequired(DefOf(defs, id))
               /\ ~\E b \in Explicit(m) : ConflictsWith(defs, id, b)
    THEN Err("MissingRequiredArgument")
    ELSE Ok(m)

get_matches(defs, given, e) ==
    LET r1 == ParseCommandLine(defs, given) IN
    IF ~r1.ok THEN r1 ELSE
    LET r2 == AddEnv(defs, e, r1.val) IN
    IF ~r2.ok THEN r2 ELSE
    LET r3 == AddDefaults(defs, r2.val) IN
    IF ~r3.ok THEN r3 ELSE Validate(defs, r3.val)

\* the derived FromArgMatches: every field of the argument struct is filled
FieldValue(a, m) ==
    IF a.opt THEN (IF a.id \in DOMAIN m THEN Some(m[a.id].val) ELSE None)
    ELSE IF a.kind = "last" THEN (IF a.id \in DOMAIN m THEN m[a.id].val ELSE <<>>)
    ELSE m[a.id].val

from_arg_matches(defs, m) ==
    IF \E id \in DefIds(defs) \ DOMAIN m :
           ~DefOf(defs, id).opt /\ DefOf(defs, id).kind # "last"
    THEN Err("MissingRequiredArgument")
    ELSE Ok([id \in DefIds(defs) |-> FieldValue(DefOf(defs, id), m)])

----------------------------------------------------------------------------
(* The command value *)

OsAction(cmd) ==
    CASE cmd = "os.switch" -> "Switch" [] cmd = "os.boot" -> "Boot"
      [] cmd = "os.test" -> "Test" [] cmd = "os.build" -> "Build"
      [] cmd = "os.repl" -> "Repl" [] cmd = "os.info" -> "Info"

HomeAction(cmd) ==
    CASE cmd = "home.switch" -> "Switch" [] cmd = "home.build" -> "Build"
      [] cmd = "home.info" -> "Info"

CleanModeTag(cmd) ==
    CASE cmd = "clean.all" -> "All" [] cmd = "clean.user" -> "User"
      [] cmd = "clean.profile" -> "Profile"

NHCommand(cmd, args) ==
    CASE cmd \in OsRebuildCmds \cup {"os.repl", "os.info"} ->
            [tag |-> "Os", inner |-> [action |-> [tag |-> OsAction(cmd), args |-> args]]]
      [] cmd \in HomeRebuildCmds \cup {"home.info"} ->
            [tag |-> "Home", inner |-> [subcommand |-> [tag |-> HomeAction(cmd), args |-> args]]]
      [] cmd = "search" -> [tag |-> "Search", inner |-> args]
      [] cmd \in CleanCmds ->
            [tag |-> "Clean", inner |-> [command |-> [tag |-> CleanModeTag(cmd), args |-> args]]]
      [] cmd = "completions" -> [tag |-> "Completions", inner |-> args]

\* NHParser::parse: get_matches, then the derived from_arg_matches
NHParser_parse(a, e, dv) ==
    LET defs == ArgDefs(a.cmd, dv)
        m    == get_matches(defs, a.given, e)
    IN  IF ~m.ok THEN m ELSE
        LET f == from_arg_matches(defs, m.val) IN
        IF ~f.ok THEN f ELSE
        Ok([verbose |-> f.val["verbose"],
            elevation_program |-> f.val["elevation_program"],
            command |-> NHCommand(a.cmd,
                          [id \in DefIds(SubDefs(a.cmd, dv)) |-> f.val[id]])])

----------------------------------------------------------------------------
(* Dispatch: the delegated NHRunnable::run *)

\* CleanProxy forwards run to its only field
CleanProxy_run(p) == << [fn |-> "CleanMode::run", self |-> p.command] >>

\* variant: the Clean variant runs the proxy alone and the nested choice is not reached
NHCommand_run_ProxyOnly(c) ==
    CASE c.tag = "Os"          -> << [fn |-> "OsArgs::run", self |-> c.inner] >>
      [] c.tag = "Home"        -> << [fn |-> "HomeArgs::run", self |-> c.inner] >>
      [] c.tag = "Search"      -> << [fn |-> "SearchArgs::run", self |-> c.inner] >>
      [] c.tag = "Clean"       -> << [fn |-> "CleanProxy::run", self |-> c.inner] >>
      [] c.tag = "Completions" -> << [fn |-> "CompletionArgs::run", self |-> c.inner] >>

\* NHCommand forwards run to the value its variant holds
NHCommand_run(c) ==
    CASE c.tag = "Os"          -> << [fn |-> "OsArgs::run", self |-> c.inner] >>
      [] c.tag = "Home"        -> << [fn |-> "HomeArgs::run", self |-> c.inner] >>
      [] c.tag = "Search"      -> << [fn |-> "SearchArgs::run", self |-> c.inner] >>
      [] c.tag = "Clean"       -> << [fn |-> "CleanProxy::run", self |-> c.inner] >>
                                  \o CleanProxy_run(c.inner)
      [] c.tag = "Completions" -> << [fn |-> "CompletionArgs::run", self |-> c.inner] >>

\* what the delegating run returns, given what the callee returned
Delegated_result(r) == r

----------------------------------------------------------------------------
(* Configuration *)

\* Config::from_env: the two defaults are fixed sub-paths of the home directory
Config_from_env(e, sub) ==
    IF IsSome(e["HOME"])
    THEN Ok([os_flake   |-> Unwrap(e["HOME"]) \o sub.os,
             home_flake |-> Unwrap(e["HOME"]) \o sub.home])
    ELSE Err("NoHomeDirectory")

to_string_lossy(path) == path

\* the leaf subcommands in the order the derived command tree defines them
BuildOrder ==
    << "os.switch", "os.boot", "os.test", "os.build", "os.repl", "os.info",
       "home.switch", "home.build", "home.info",
       "search", "clean.all", "clean.user", "clean.profile", "completions" >>

\* variant: no default is evaluated while the command tree is built
HasDefaultValueT_Deferred(site) == FALSE

\* defining a subcommand evaluates the default_value_t of its flakeref, if it has one
HasDefaultValueT(site) == site \in OsRebuildCmds \cup HomeRebuildCmds

\* variant: every site takes the system default
DefaultValueT_SystemOnly(site, c) ==
    FlakeRef_fmt(FlakeRef_from(to_string_lossy(c.os_flake)))

\* the default_value_t expression of a site
DefaultValueT(site, c) ==
    IF site \in OsRebuildCmds
    THEN FlakeRef_fmt(FlakeRef_from(to_string_lossy(c.os_flake)))
    ELSE FlakeRef_fmt(FlakeRef_from(to_string_lossy(c.home_flake)))

----------------------------------------------------------------------------
(* Inputs *)

HomeValues == {None, Some(T("/home/u"))}

SubPaths == {T("/.config/a"), T("/.config/b")}

Layouts == {[os |-> T("/.config/a"), home |-> h] : h \in SubPaths}

BoolEnvValues == {None, Some(T("true")), Some(T("false")), Some(T("1"))}

Envs ==
    [HOME : HomeValues,
     FLAKE : {None, Some(T("env-flake"))},
     NH_DIFF_PROVIDER : {None, Some(T("env-diff"))},
     NH_BYPASS_ROOT_CHECK : BoolEnvValues]

FlagIds == {"verbose", "dry", "no_specialisation", "bypass_root_check"}

\* the raw values a supplied argument carries on the command line
CandRaw(id) ==
    CASE id \in FlagIds     -> <<>>
      [] id = "keep"        -> << <<"2">> >>
      [] id = "keep_since"  -> << <<"1", "h">> >>
      [] id = "limit"       -> << <<"5">> >>
      [] id = "shell"       -> << T("bash") >>
      [] OTHER              -> << T("cli-" \o id) >>

\* the arguments a command line of each command may supply
CandIds(cmd) ==
    CASE cmd = "os.switch" ->
            {"flakeref", "configuration", "specialisation", "no_specialisation",
             "diff_provider", "bypass_root_check"}
      [] cmd \in OsRebuildCmds \ {"os.switch"} ->
            {"flakeref", "configuration", "specialisation", "no_specialisation"}
      [] cmd = "os.repl"         -> {"flakeref", "configuration", "hostname"}
      [] cmd = "home.switch"     ->
            {"flakeref", "configuration", "diff_provider", "backup_extension"}
      [] cmd = "home.build"      -> {"flakeref", "configuration"}
      [] cmd = "search"          -> {"limit", "channel", "query", "flake"}
      [] cmd \in {"clean.all", "clean.user"} -> {"keep", "keep_since", "dry"}
      [] cmd = "clean.profile"   -> {"keep", "keep_since", "dry", "profile"}
      [] cmd = "completions"     -> {"shell"}
      [] OTHER                   -> {"verbose"}

\* the commands whose command lines may carry trailing arguments
WithExtraArgs == {"os.switch", "os.repl", "home.switch"}

ExtraChoices(cmd) ==
    IF cmd \in WithExtraArgs
    THEN UNION {[1..n -> {T("--pass")}] : n \in 0..MaxExtraArgs}
    ELSE {<<>>}

Given(S, x) ==
    [id \in S \cup (IF x = <<>> THEN {} ELSE {"extra_args"}) |->
        IF id = "extra_args" THEN x ELSE CandRaw(id)]

Argvs ==
    UNION {{[cmd |-> cmd, given |-> Given(S, x)] :
                S \in SUBSET CandIds(cmd), x \in ExtraChoices(cmd)} : cmd \in Commands}

----------------------------------------------------------------------------
(* The process *)

Init ==
    /\ env \in Envs
    /\ layout \in Layouts
    /\ argv \in Argvs
    /\ pc = "build"
    /\ buildIdx = 1
    /\ cfg = [state |-> "uninit"]
    /\ initCount = 0
    /\ accesses = 0
    /\ observed = {}
    /\ defaults = [s \in {} |-> <<>>]
    /\ outcome = "none"
    /\ command = None
    /\ calls = <<>>
    /\ leafResult = None
    /\ result = None

AfterBuild(i) == IF i >= Len(BuildOrder) THEN "parse" ELSE "build"

\* a subcommand without default_value_t is defined
BuildPlain ==
    /\ pc = "build"
    /\ ~HasDefaultValueT(BuildOrder[buildIdx])
    /\ buildIdx' = buildIdx + 1
    /\ pc' = AfterBuild(buildIdx)
    /\ UNCHANGED <<env, layout, argv, cfg, initCount, accesses, observed, defaults,
                   outcome, command, calls, leafResult, result>>

\* variant: every access constructs the Configuration again
BuildDefault_Reconstruct ==
    /\ pc = "build"
    /\ HasDefaultValueT(BuildOrder[buildIdx])
    /\ cfg.state = "ready"
    /\ Config_from_env(env, layout).ok
    /\ cfg' = [state |-> "ready", val |-> Config_from_env(env, layout).val]
    /\ initCount' = initCount + 1
    /\ accesses' = accesses + 1
    /\ observed' = observed \cup {cfg'.val}
    /\ defaults' = defaults @@
           (BuildOrder[buildIdx] :> DefaultValueT(BuildOrder[buildIdx], cfg'.val))
    /\ buildIdx' = buildIdx + 1
    /\ pc' = AfterBuild(buildIdx)
    /\ UNCHANGED <<env, layout, argv, outcome, command, calls, leafResult, result>>

\* a default_value_t is evaluated and FLAKE_CONFIG is already initialised
BuildDefault ==
    /\ pc = "build"
    /\ HasDefaultValueT(BuildOrder[buildIdx])
    /\ cfg.state = "ready"
    /\ accesses' = accesses + 1
    /\ observed' = observed \cup {cfg.val}
    /\ defaults' = defaults @@
           (BuildOrder[buildIdx] :> DefaultValueT(BuildOrder[buildIdx], cfg.val))
    /\ buildIdx' = buildIdx + 1
    /\ pc' = AfterBuild(buildIdx)
    /\ UNCHANGED <<env, layout, argv, cfg, initCount, outcome, command, calls,
                   leafResult, result>>

\* a default_value_t is evaluated and it is the first access of FLAKE_CONFIG
BuildDefaultInit ==
    /\ pc = "build"
    /\ HasDefaultValueT(BuildOrder[buildIdx])
    /\ cfg.state = "uninit"
    /\ Config_from_env(env, layout).ok
    /\ cfg' = [state |-> "ready", val |-> Config_from_env(env, layout).val]
    /\ initCount' = initCount + 1
    /\ accesses' = accesses + 1
    /\ observed' = observed \cup {cfg'.val}
    /\ defaults' = defaults @@
           (BuildOrder[buildIdx] :> DefaultValueT(BuildOrder[buildIdx], cfg'.val))
    /\ buildIdx' = buildIdx + 1
    /\ pc' = AfterBuild(buildIdx)
    /\ UNCHANGED <<env, layout, argv, outcome, command, calls, leafResult, result>>

\* the first access fails: expect panics and the process ends
BuildPanic ==
    /\ pc = "build"
    /\ HasDefaultValueT(BuildOrder[buildIdx])
    /\ cfg.state = "uninit"
    /\ ~Config_from_env(env, layout).ok
    /\ cfg' = [state |-> "poisoned"]
    /\ initCount' = initCount + 1
    /\ accesses' = accesses + 1
    /\ pc' = "panicked"
    /\ outcome' = "panic"
    /\ UNCHANGED <<env, layout, argv, buildIdx, observed, defaults, command, calls,
                   leafResult, result>>

ParseOk ==
    /\ pc = "parse"
    /\ NHParser_parse(argv, env, defaults).ok
    /\ command' = Some(NHParser_parse(argv, env, defaults).val)
    /\ outcome' = "parsed"
    /\ pc' = "parsed"
    /\ UNCHANGED <<env, layout, argv, buildIdx, cfg, initCount, accesses, observed, defaults,
                   calls, leafResult, result>>

\* a parse or validation error: the error is reported and the process exits
ParseReject ==
    /\ pc = "parse"
    /\ ~NHParser_parse(argv, env, defaults).ok
    /\ outcome' = NHParser_parse(argv, env, defaults).kind
    /\ pc' = "rejected"
    /\ UNCHANGED <<env, layout, argv, buildIdx, cfg, initCount, accesses, observed, defaults,
                   command, calls, leafResult, result>>

\* args.command.run(): the leaf's run returns success or a failure
Run ==
    /\ pc = "parsed"
    /\ \E r \in {"Ok", "Err"} :
          /\ leafResult' = Some(r)
          /\ result' = Some(Delegated_result(r))
    /\ calls' = calls \o NHCommand_run(Unwrap(command).command)
    /\ pc' = "done"
    /\ UNCHANGED <<env, layout, argv, buildIdx, cfg, initCount, accesses, observed, defaults,
                   outcome, command>>

Next ==
    \/ BuildPlain
    \/ BuildDefault
    \/ BuildDefaultInit
    \/ BuildPanic
    \/ ParseOk
    \/ ParseReject
    \/ Run

Spec == Init /\ [][Next]_vars

----------------------------------------------------------------------------
(* Properties *)

Supplied(id) == id \in DOMAIN argv.given

Parsed == pc \in {"parsed", "done"}

\* no command value was produced and no run was dispatched
NoCommandNoRun == command = None /\ calls = <<>> /\ result = None

\* the argument struct of the leaf the parsed command selected
LeafArgs ==
    LET c == Unwrap(command).command IN
    CASE c.tag = "Os"    -> c.inner.action.args
      [] c.tag = "Home"  -> c.inner.subcommand.args
      [] c.tag = "Clean" -> c.inner.command.args
      [] OTHER           -> c.inner

RebuildOrRepl == OsRebuildCmds \cup HomeRebuildCmds \cup {"os.repl"}

\* a target reference (positional, or FLAKE for os repl) and --configuration are both supplied
BothReferenceAndConfiguration ==
    /\ argv.cmd \in RebuildOrRepl
    /\ Supplied("configuration")
    /\ Supplied("flakeref") \/ (argv.cmd = "os.repl" /\ IsSome(env["FLAKE"]))

\* C1 as stated: on every rebuild-style or repl command, supplying both a target
\* reference and --configuration is rejected at parse time: no command value is
\* produced and no run is dispatched.
C1_RejectedEverywhere == BothReferenceAndConfiguration => NoCommandNoRun

\* C1 amended: supplying both is rejected for os repl (argument conflict) and for
\* os switch/boot/test/build (they declare no --configuration: unknown argument);
\* home switch and home build declare no conflict, are never rejected for it, and
\* the parsed command carries both the reference and the configuration name.
C1_RejectedExceptHome ==
    BothReferenceAndConfiguration =>
        /\ argv.cmd \notin HomeRebuildCmds => NoCommandNoRun
        /\ (argv.cmd = "os.repl" /\ pc = "rejected") => outcome = "ArgumentConflict"
        /\ (argv.cmd \in OsRebuildCmds /\ pc = "rejected") => outcome = "UnknownArgument"
        /\ argv.cmd \in HomeRebuildCmds =>
              /\ pc # "rejected"
              /\ Parsed => /\ LeafArgs["flakeref"] = [inner |-> T("cli-flakeref")]
                           /\ LeafArgs["configuration"] = Some(T("cli-configuration"))

C1_Witness ==
    /\ BothReferenceAndConfiguration
    /\ argv.cmd = "os.repl"
    /\ ~Supplied("flakeref")
    /\ pc = "rejected"
    /\ outcome = "ArgumentConflict"

LeafFns ==
    {"OsArgs::run", "HomeArgs::run", "SearchArgs::run", "CleanMode::run",
     "CompletionArgs::run"}

\* the top-level variant and the run a command line selects
ExpectedTag(cmd) ==
    CASE cmd \in OsRebuildCmds \cup {"os.repl", "os.info"} -> "Os"
      [] cmd \in HomeRebuildCmds \cup {"home.info"} -> "Home"
      [] cmd = "search" -> "Search"
      [] cmd \in CleanCmds -> "Clean"
      [] cmd = "completions" -> "Completions"

ExpectedLeafFn(tag) ==
    CASE tag = "Os" -> "OsArgs::run" [] tag = "Home" -> "HomeArgs::run"
      [] tag = "Search" -> "SearchArgs::run" [] tag = "Clean" -> "CleanMode::run"
      [] tag = "Completions" -> "CompletionArgs::run"

\* C2: once run has returned, exactly one leaf run was invoked, exactly once, on the
\* value the selected variant holds; NHCommand forwards to the one of
\* Os/Home/Search/Clean/Completions that was parsed, CleanProxy forwards to the
\* nested mode (All/User/Profile) that was parsed and adds no call of its own, and
\* the result is the leaf's result; before that no run was invoked.
C2_ExactlyOneLeafRun ==
    /\ pc # "done" => calls = <<>> /\ result = None
    /\ pc = "done" =>
          LET c     == Unwrap(command).command
              leafs == SelectSeq(calls, LAMBDA x : x.fn \in LeafFns)
          IN  /\ c.tag = ExpectedTag(argv.cmd)
              /\ Len(leafs) = 1
              /\ calls[Len(calls)] = leafs[1]
              /\ leafs[1].fn = ExpectedLeafFn(c.tag)
              /\ result = leafResult
              /\ c.tag # "Clean" => calls = << [fn |-> leafs[1].fn, self |-> c.inner] >>
              /\ c.tag = "Clean" =>
                    /\ calls = << [fn |-> "CleanProxy::run", self |-> c.inner],
                                  [fn |-> "CleanMode::run", self |-> c.inner.command] >>
                    /\ c.inner.command.tag = CleanModeTag(argv.cmd)

C2_Witness ==
    /\ pc = "done"
    /\ argv.cmd = "clean.profile"
    /\ Len(calls) = 2
    /\ calls[2].self.tag = "Profile"
    /\ result = Some("Err")

\* C3: a run is executed only after the Configuration was resolved and the command
\* line parsed and validated; without a home directory the process aborts while
\* the command tree is built, before anything is parsed, whatever the command;
\* after a parse or validation failure there is no command value and no run.
C3_ValidateThenDispatch ==
    /\ calls # <<>> => cfg.state = "ready" /\ IsSome(command) /\ outcome = "parsed"
    /\ pc \in {"parse", "parsed", "rejected", "done"} => cfg.state = "ready"
    /\ env["HOME"] = None =>
          /\ pc \in {"build", "panicked"}
          /\ outcome \in {"none", "panic"}
          /\ NoCommandNoRun
    /\ pc \in {"rejected", "panicked"} => NoCommandNoRun

C3_Witness ==
    /\ pc = "panicked"
    /\ argv.cmd = "search"
    /\ Supplied("query")
    /\ env["HOME"] = None
    /\ NoCommandNoRun

\* the value precedence assigns to an argument: command line, else environment,
\* else declared or Configuration-derived default, else the type default
PrecedenceValue(a) ==
    IF Supplied(a.id)
    THEN IF a.kind = "flag" THEN TRUE
         ELSE IF a.kind = "last" THEN argv.given[a.id]
         ELSE ValueParse(a.ty, argv.given[a.id][1]).val
    ELSE IF IsSome(a.env) /\ IsSome(EnvVar(env, Unwrap(a.env)))
    THEN ValueParse(a.ty, Unwrap(EnvVar(env, Unwrap(a.env)))).val
    ELSE IF IsSome(a.default) THEN ValueParse(a.ty, Unwrap(a.default)).val
    ELSE IF a.kind = "flag" THEN FALSE
    ELSE <<>>

HasSource(a) ==
    \/ Supplied(a.id)
    \/ IsSome(a.env) /\ IsSome(EnvVar(env, Unwrap(a.env)))
    \/ IsSome(a.default)

\* C4: in every parsed command each field holds the value of the first source
\* present in the order command line, environment variable, default
\* (Configuration-derived for the rebuild flakeref, "nvd diff" for the diff
\* provider), type default (false, empty, absent).
C4_Precedence ==
    Parsed =>
        LET defs == SubDefs(argv.cmd, defaults) IN
        /\ \A i \in 1..Len(defs) :
              LET a == defs[i] IN
              LeafArgs[a.id] = IF a.opt /\ HasSource(a) THEN Some(PrecedenceValue(a))
                               ELSE PrecedenceValue(a)
        /\ (argv.cmd \in OsRebuildCmds \cup HomeRebuildCmds
                /\ ~Supplied("diff_provider") /\ env["NH_DIFF_PROVIDER"] = None)
              => LeafArgs["diff_provider"] = T("nvd diff")
        /\ (argv.cmd \in OsRebuildCmds /\ ~Supplied("flakeref"))
              => LeafArgs["flakeref"].inner = cfg.val.os_flake
        /\ (argv.cmd \in OsRebuildCmds /\ ~Supplied("bypass_root_check"))
              => LeafArgs["bypass_root_check"] = (env["NH_BYPASS_ROOT_CHECK"] = Some(T("true")))
        /\ (argv.cmd = "search" /\ ~Supplied("flake"))
              => LeafArgs["flake"] =
                    IF IsSome(env["FLAKE"]) THEN Some([inner |-> Unwrap(env["FLAKE"])])
                    ELSE None

C4_Witness ==
    /\ pc = "done"
    /\ argv.cmd = "os.switch"
    /\ Supplied("diff_provider")
    /\ IsSome(env["NH_DIFF_PROVIDER"])
    /\ LeafArgs["diff_provider"] = T("cli-diff_provider")
    /\ ~Supplied("bypass_root_check")
    /\ env["NH_BYPASS_ROOT_CHECK"] = Some(T("true"))
    /\ LeafArgs["bypass_root_check"] = TRUE

\* C5: a rebuild-style command parsed without a target reference carries the
\* Configuration default of its family: os_flake for os switch/boot/test/build,
\* home_flake for home switch/build; when the two defaults differ, so do the
\* defaults the two families declare, and neither family gets the other's.
C5_FamilyDefault ==
    /\ (Parsed /\ ~Supplied("flakeref") /\ argv.cmd \in OsRebuildCmds) =>
          /\ LeafArgs["flakeref"] = [inner |-> Unwrap(env["HOME"]) \o layout.os]
          /\ LeafArgs["flakeref"].inner = cfg.val.os_flake
          /\ cfg.val.os_flake # cfg.val.home_flake
                => LeafArgs["flakeref"].inner # cfg.val.home_flake
    /\ (Parsed /\ ~Supplied("flakeref") /\ argv.cmd \in HomeRebuildCmds) =>
          /\ LeafArgs["flakeref"] = [inner |-> Unwrap(env["HOME"]) \o layout.home]
          /\ LeafArgs["flakeref"].inner = cfg.val.home_flake
          /\ cfg.val.os_flake # cfg.val.home_flake
                => LeafArgs["flakeref"].inner # cfg.val.os_flake
    /\ (pc # "build" /\ cfg.state = "ready" /\ cfg.val.os_flake # cfg.val.home_flake) =>
          \A o \in OsRebuildCmds : \A h \in HomeRebuildCmds : defaults[o] # defaults[h]

C5_Witness ==
    /\ pc = "done"
    /\ argv.cmd = "home.build"
    /\ ~Supplied("flakeref")
    /\ cfg.val.os_flake # cfg.val.home_flake
    /\ LeafArgs["flakeref"].inner = cfg.val.home_flake

\* C6: over all accesses of one process the Configuration is constructed at most
\* once, on the first access; every access observed the one value, which is the
\* value held, and every default was computed from it.
C6_Memoized ==
    /\ initCount <= 1
    /\ accesses > 0 => initCount = 1
    /\ accesses = 0 => cfg.state = "uninit" /\ observed = {}
    /\ cfg.state = "ready" =>
          /\ observed = {cfg.val}
          /\ cfg.val = Config_from_env(env, layout).val
          /\ \A site \in DOMAIN defaults : defaults[site] = DefaultValueT(site, cfg.val)
    /\ cfg.state # "ready" => observed = {}

C6_Witness ==
    /\ pc = "parse"
    /\ accesses = 6
    /\ initCount = 1
    /\ Cardinality(observed) = 1

BothSpecialisationFlags ==
    /\ argv.cmd \in OsRebuildCmds
    /\ Supplied("specialisation")
    /\ Supplied("no_specialisation")

\* C7 as stated: on os switch/boot/test/build, supplying both --specialisation and
\* --no-specialisation is rejected at parse time and never reaches dispatch.
C7_MutuallyExclusive == BothSpecialisationFlags => NoCommandNoRun

\* C7 amended: the two are independent at parse time: supplying both is never
\* rejected as a conflict, and the parsed command carries the specialisation name
\* together with no_specialisation = true.
C7_BothAccepted ==
    BothSpecialisationFlags =>
        /\ pc = "rejected" => outcome \in {"UnknownArgument", "InvalidValue"}
        /\ (~Supplied("configuration") /\ env["NH_BYPASS_ROOT_CHECK"] # Some(T("1")))
              => pc # "rejected"
        /\ Parsed => /\ LeafArgs["specialisation"] = Some(T("cli-specialisation"))
                     /\ LeafArgs["no_specialisation"] = TRUE

C7_Witness ==
    /\ BothSpecialisationFlags
    /\ argv.cmd = "os.test"
    /\ pc = "done"
    /\ LeafArgs["specialisation"] = Some(T("cli-specialisation"))
    /\ LeafArgs["no_specialisation"] = TRUE

\* C8: a cleanup command (all, user, profile) parsed without --keep and
\* --keep-since carries keep = 1 and keep_since = 0 seconds, and every one of
\* dry, ask, nogc, nogcroots that was not given is false; the three modes carry
\* the same fields, and profile also carries the given path unchanged.
C8_CleanDefaults ==
    (Parsed /\ argv.cmd \in CleanCmds) =>
        /\ ~Supplied("keep") => LeafArgs["keep"] = 1
        /\ ~Supplied("keep_since") => LeafArgs["keep_since"] = 0
        /\ \A f \in {"dry", "ask", "nogc", "nogcroots"} : LeafArgs[f] = Supplied(f)
        /\ Unwrap(command).command.inner.command.tag = CleanModeTag(argv.cmd)
        /\ {"keep", "keep_since", "dry", "ask", "nogc", "nogcroots"} \subseteq DOMAIN LeafArgs
        /\ argv.cmd = "clean.profile" => LeafArgs["profile"] = T("cli-profile")
        /\ argv.cmd # "clean.profile" => "profile" \notin DOMAIN LeafArgs

C8_Witness ==
    /\ pc = "done"
    /\ argv.cmd = "clean.profile"
    /\ argv.given = [profile |-> <<T("cli-profile")>>]
    /\ LeafArgs["keep"] = 1
    /\ LeafArgs["keep_since"] = 0
    /\ LeafArgs["dry"] = FALSE

\* C9: a search parsed with a query and without --limit and --channel carries
\* limit = 30 and no channel, and the query as given; a search without a query
\* is rejected (missing required argument) and never dispatched.
C9_SearchDefaults ==
    argv.cmd = "search" =>
        /\ (Parsed /\ ~Supplied("limit")) => LeafArgs["limit"] = 30
        /\ (Parsed /\ ~Supplied("channel")) => LeafArgs["channel"] = None
        /\ Parsed => Supplied("query") /\ LeafArgs["query"] = T("cli-query")
        /\ ~Supplied("query") =>
              /\ NoCommandNoRun
              /\ pc = "rejected" => outcome = "MissingRequiredArgument"

C9_Witness ==
    /\ pc = "done"
    /\ argv.cmd = "search"
    /\ ~Supplied("limit")
    /\ ~Supplied("channel")
    /\ LeafArgs["limit"] = 30
    /\ LeafArgs["channel"] = None

\* C10: os repl parses only if a reference comes from the positional argument or
\* from FLAKE, and then carries it (the positional one first); with neither it is
\* rejected, with or without --configuration; and no os repl command line that
\* carries --configuration produces a command or reaches run.
C10_ReplNeedsReference ==
    argv.cmd = "os.repl" =>
        /\ Parsed =>
              /\ Supplied("flakeref") \/ IsSome(env["FLAKE"])
              /\ LeafArgs["flakeref"] =
                    IF Supplied("flakeref") THEN [inner |-> T("cli-flakeref")]
                    ELSE [inner |-> Unwrap(env["FLAKE"])]
        /\ (~Supplied("flakeref") /\ env["FLAKE"] = None) =>
              /\ NoCommandNoRun
              /\ pc = "rejected" => outcome = "MissingRequiredArgument"
        /\ Supplied("configuration") => NoCommandNoRun

C10_Witness ==
    /\ pc = "rejected"
    /\ argv.cmd = "os.repl"
    /\ Supplied("configuration")
    /\ ~Supplied("flakeref")
    /\ env["FLAKE"] = None
    /\ outcome = "MissingRequiredArgument"

====
